---- MODULE Spec2Model ----
(***************************************************************************)
(* A model of the CoadBot notebook: the loader wrapper                     *)
(* instantiate_huggingface_model, the generation wrapper generate_text,    *)
(* and the notebook cells that call them in order.  The transformers       *)
(* library is the environment: each of its calls either succeeds or raises *)
(* an error of some kind.                                                  *)
(***************************************************************************)
EXTENDS Integers, Sequences, FiniteSets, TLC

VARIABLES
    call,        \* the arguments the load cell passes to the loader
    cell,        \* index in Cells of the next cell to run
    pc,          \* position of the interpreter (between cells or inside a function)
    ns,          \* the kernel namespace: model, tokenizer, deci_generator
    loc,         \* frame of instantiate_huggingface_model (parameters and locals)
    inst,        \* outcome of the loader call as seen by its caller
    model_loads, \* keyword arguments of each AutoModelForCausalLM.from_pretrained call
    tok_loads,   \* keyword arguments of each AutoTokenizer.from_pretrained call
    steps,       \* the steps of the loader body executed so far, in order
    gen,         \* frame of generate_text (parameters and locals)
    g,           \* outcome of generate_text calls as seen by their caller
    pipe_log,    \* outcome of each pipeline call made by the current generate_text call
    built,       \* the namespace as it was right after pipeline construction
    last_err     \* the error shown in the output of the last cell that ran

vars == <<call, cell, pc, ns, loc, inst, model_loads, tok_loads, steps, gen, g,
          pipe_log, built, last_err>>

(*************************** Python values *********************************)

PyNone == [type |-> "NoneType"]

PyBool(b) == [type |-> "bool", v |-> b]

PyStr(s) == [type |-> "str", v |-> s]

\* a name the kernel has not bound (reading it raises NameError)
Unbound == [type |-> "unbound"]

\* a function that is not executing has no frame
NoFrame == [type |-> "noframe"]

(*************************** bounds ****************************************)

\* longest result list a pipeline call returns
MaxReturn == 2

(*************************** the library ***********************************)

\* BitsAndBytesConfig(**kw): the object keeps the options it was built with
BitsAndBytesConfig(kw) == [type |-> "BitsAndBytesConfig", opts |-> kw]

IsFourBit(qc) ==
    /\ qc.type = "BitsAndBytesConfig"
    /\ "load_in_4bit" \in DOMAIN qc.opts
    /\ qc.opts.load_in_4bit

NotebookModelName == "Deci/DeciCoder-6B"

ModelNames == {NotebookModelName, "no/such-model"}

KnownModels == {NotebookModelName}

EosToken == "<|endoftext|>"

\* error kinds a model load can raise for a given identifier
ModelLoadErrors(name) ==
    IF name \in KnownModels THEN {"OutOfMemory", "IncompatibleConfig"}
                            ELSE {"NotFound"}

\* error kinds a tokenizer load can raise
TokLoadErrors == {"NotFound"}

\* error kinds pipeline construction can raise
PipelineErrors == {"IncompatibleConfig"}

\* error kinds a generation call can raise
GenerateErrors == {"OutOfMemory", "ContextLengthOverflow"}

\* the handle a successful model load returns
LoadedModel(name, kw) == [type |-> "PreTrainedModel", name |-> name, kw |-> kw]

\* the tokenizers a successful tokenizer load can return
LoadedTokenizers(name) ==
    { [type |-> "PreTrainedTokenizer", name |-> name, eos_token |-> PyStr(EosToken),
       pad_token |-> p, padding_side |-> PyStr(s)] :
         p \in {PyNone, PyStr("[PAD]")}, s \in {"right", "left"} }

\* continuations the model can produce after a prompt
Continuations == {"<|endoftext|>", " or not.<|endoftext|>"}

\* the result lists a successful pipeline call can return
PipelineResults(prompt) ==
    UNION { [1..n -> { [generated_text |-> PyStr(prompt.v \o c)] : c \in Continuations }] :
              n \in 1..MaxReturn }

(*************************** the loader's signature ***********************)

OptionalParams ==
    {"quantization_config", "device_map", "use_cache", "trust_remote_code",
     "pad_token", "padding_side"}

\* def instantiate_huggingface_model(model_name, quantization_config=None, ...)
SignatureDefaults ==
    [quantization_config |-> PyNone,
     device_map          |-> PyStr("auto"),
     use_cache           |-> PyBool(TRUE),
     trust_remote_code   |-> PyNone,
     pad_token           |-> PyNone,
     padding_side        |-> PyStr("left")]

\* the defaults the docstring states for the same parameters
DocumentedDefaults ==
    [device_map          |-> PyStr("auto"),
     use_cache           |-> PyBool(FALSE),
     trust_remote_code   |-> PyBool(TRUE),
     padding_side        |-> PyStr("left")]

\* Python's binding of a call's keyword arguments to the parameters
BindParams(name, kwargs) ==
    [p \in OptionalParams \cup {"model_name"} |->
        IF p = "model_name" THEN PyStr(name)
        ELSE IF p \in DOMAIN kwargs THEN kwargs[p]
        ELSE SignatureDefaults[p]]

\* the quantization configuration built when none is given
DefaultQuantizationConfig ==
    BitsAndBytesConfig([load_in_8bit |-> TRUE, low_cpu_mem_usage |-> TRUE])

\* the values a caller may pass for each optional parameter
FourBitConfig == BitsAndBytesConfig([load_in_4bit |-> TRUE])

ArgValues ==
    [quantization_config |-> {PyNone, FourBitConfig},
     device_map          |-> {PyStr("cpu")},
     use_cache           |-> {PyBool(TRUE), PyBool(FALSE)},
     trust_remote_code   |-> {PyBool(TRUE), PyBool(FALSE)},
     pad_token           |-> {PyNone, PyStr(""), PyStr("<pad>")},
     padding_side        |-> {PyStr("right")}]

AllArgValues == UNION { ArgValues[p] : p \in OptionalParams }

KeywordArguments ==
    UNION { { kw \in [S -> AllArgValues] : \A p \in S : kw[p] \in ArgValues[p] } :
              S \in SUBSET OptionalParams }

Calls == [model_name : ModelNames, kwargs : KeywordArguments]

\* instantiate_huggingface_model("Deci/DeciCoder-6B", trust_remote_code=True)
NotebookCall ==
    [model_name |-> NotebookModelName,
     kwargs     |-> [trust_remote_code |-> PyBool(TRUE)]]

(*************************** the notebook **********************************)

\* the cells with the load cell repeated between two generation cells
CellsWithReload ==
    <<"load", "pipeline", "generate", "load", "generate", "generate", "generate">>

\* the code cells after the definitions, in notebook order
Cells ==
    <<"load", "pipeline", "generate", "generate", "generate", "generate", "generate">>

CellPrompt ==
    <<"", "",
      "def all_odd_elements(sequence):",
      "def nth_element_in_fibonnaci(element):",
      "Write code in Python to check if a number is prime",
      "Write code in Java to check if a number is prime",
      "Write code in Rust to check if a number is prime">>

\* pipeline("text-generation", model=model, tokenizer=tokenizer, ...)
MakePipeline(model, tokenizer) ==
    [type |-> "TextGenerationPipeline", model |-> model, tokenizer |-> tokenizer,
     device_map |-> "auto", max_length |-> 2048,
     temperature |-> [num |-> 1, den |-> 1000], do_sample |-> TRUE,
     streamer |-> [type |-> "TextStreamer", tokenizer |-> tokenizer]]

InstIdle == [status |-> "notcalled", calls |-> 0, err |-> "none", ret |-> PyNone]

GenIdle == [status |-> "notcalled", calls |-> 0, active |-> 0, err |-> "none",
            ret |-> PyNone]

\* one executed step of the loader body and how it ended ("ok" or the error kind)
Step(name, outcome) == [step |-> name, outcome |-> outcome]

InitWith(c) ==
    /\ call = c
    /\ cell = 1
    /\ pc = "cell"
    /\ ns = [model |-> Unbound, tokenizer |-> Unbound, deci_generator |-> Unbound,
             prompt |-> Unbound]
    /\ loc = NoFrame
    /\ inst = InstIdle
    /\ model_loads = << >>
    /\ tok_loads = << >>
    /\ steps = << >>
    /\ gen = NoFrame
    /\ g = GenIdle
    /\ pipe_log = << >>
    /\ built = Unbound
    /\ last_err = "none"

\* the loader called with any arguments
Init == \E c \in Calls : InitWith(c)

\* the loader called as the notebook calls it
NotebookInit == InitWith(NotebookCall)

\* a cell ends with an uncaught error: the error is shown, and the run either
\* stops there or goes on with the next cell
CellFails(kind) ==
    /\ last_err' = kind
    /\ \E goon \in BOOLEAN :
         IF goon THEN pc' = "cell" /\ cell' = cell + 1
                 ELSE pc' = "halted" /\ cell' = cell

CellSucceeds ==
    /\ last_err' = "none"
    /\ pc' = "cell"
    /\ cell' = cell + 1

CanRun(kind) == pc = "cell" /\ cell \in 1..Len(Cells) /\ Cells[cell] = kind

(*************************** instantiate_huggingface_model *****************)

\* model, tokenizer = instantiate_huggingface_model(...): the call binds the
\* parameters and enters the body
CellLoad ==
    /\ CanRun("load")
    /\ loc' = [params |-> BindParams(call.model_name, call.kwargs),
               model |-> Unbound, tokenizer |-> Unbound]
    /\ inst' = [InstIdle EXCEPT !.status = "running", !.calls = inst.calls + 1]
    /\ steps' = << >>
    /\ pc' = "i_quant"
    /\ UNCHANGED <<call, cell, ns, model_loads, tok_loads, gen, g, pipe_log, built,
                   last_err>>

\* the body with the tokenizer loaded before the model
AfterStepTokenizerFirst(step) ==
    CASE step = "quantization_config" -> "i_tok"
      [] step = "tokenizer_load"      -> "i_model"
      [] step = "model_load"          -> "i_pad"
      [] step = "pad_token"           -> "i_side"
      [] step = "padding_side"        -> "i_return"

\* the statement that follows each statement of the body
AfterStep(step) ==
    CASE step = "quantization_config" -> "i_model"
      [] step = "model_load"          -> "i_tok"
      [] step = "tokenizer_load"      -> "i_pad"
      [] step = "pad_token"           -> "i_side"
      [] step = "padding_side"        -> "i_return"

\* if quantization_config is None: quantization_config = BitsAndBytesConfig(...)
QuantizationConfigFor(quantization_config) ==
    IF quantization_config = PyNone THEN DefaultQuantizationConfig
                                    ELSE quantization_config

InstDefaultQuantization ==
    /\ pc = "i_quant"
    /\ loc' = [loc EXCEPT !.params.quantization_config =
                              QuantizationConfigFor(loc.params.quantization_config)]
    /\ steps' = Append(steps, Step("quantization_config", "ok"))
    /\ pc' = AfterStep("quantization_config")
    /\ UNCHANGED <<call, cell, ns, inst, model_loads, tok_loads, gen, g, pipe_log,
                   built, last_err>>

\* the keyword arguments of AutoModelForCausalLM.from_pretrained(model_name, ...)
ModelLoadKwargs(params) ==
    [quantization_config |-> params.quantization_config,
     device_map          |-> params.device_map,
     use_cache           |-> params.use_cache,
     trust_remote_code   |-> params.trust_remote_code]

\* the keyword arguments of AutoTokenizer.from_pretrained(model_name, ...)
TokLoadKwargs(params) == [trust_remote_code |-> params.trust_remote_code]

\* the loader catching the error and handing back an empty pair
InstSwallows(kind) ==
    /\ inst' = [inst EXCEPT !.status = "returned",
                            !.ret = [type |-> "tuple", model |-> PyNone,
                                     tokenizer |-> PyNone]]
    /\ loc' = NoFrame
    /\ ns' = [ns EXCEPT !.model = PyNone, !.tokenizer = PyNone]
    /\ CellSucceeds

\* a library call inside the loader raises: nothing catches it, so the call
\* ends with that error and the cell's assignment never happens
InstRaises(kind) ==
    /\ inst' = [inst EXCEPT !.status = "raised", !.err = kind]
    /\ loc' = NoFrame
    /\ ns' = ns
    /\ CellFails(kind)

InstModelLoad ==
    /\ pc = "i_model"
    /\ model_loads' = Append(model_loads, ModelLoadKwargs(loc.params))
    /\ \/ /\ loc.params.model_name.v \in KnownModels
          /\ loc' = [loc EXCEPT !.model = LoadedModel(loc.params.model_name.v,
                                                      ModelLoadKwargs(loc.params))]
          /\ steps' = Append(steps, Step("model_load", "ok"))
          /\ pc' = AfterStep("model_load")
          /\ UNCHANGED <<cell, ns, inst, last_err>>
       \/ \E kind \in ModelLoadErrors(loc.params.model_name.v) :
             /\ steps' = Append(steps, Step("model_load", kind))
             /\ InstRaises(kind)
    /\ UNCHANGED <<call, tok_loads, gen, g, pipe_log, built>>

InstTokLoad ==
    /\ pc = "i_tok"
    /\ tok_loads' = Append(tok_loads, TokLoadKwargs(loc.params))
    /\ \/ /\ \E t \in LoadedTokenizers(loc.params.model_name.v) :
                loc' = [loc EXCEPT !.tokenizer = t]
          /\ steps' = Append(steps, Step("tokenizer_load", "ok"))
          /\ pc' = AfterStep("tokenizer_load")
          /\ UNCHANGED <<cell, ns, inst, last_err>>
       \/ \E kind \in TokLoadErrors :
             /\ steps' = Append(steps, Step("tokenizer_load", kind))
             /\ InstRaises(kind)
    /\ UNCHANGED <<call, model_loads, gen, g, pipe_log, built>>

\* the pad token chosen by truthiness (if pad_token:), which drops ''
PadTokenIfTruthy(pad_token, tokenizer) ==
    IF pad_token # PyNone /\ pad_token # PyStr("") THEN pad_token
                                                   ELSE tokenizer.eos_token

\* if pad_token is not None: tokenizer.pad_token = pad_token
\* else: tokenizer.pad_token = tokenizer.eos_token
PadTokenFor(pad_token, tokenizer) ==
    IF pad_token # PyNone THEN pad_token ELSE tokenizer.eos_token

InstSetPadToken ==
    /\ pc = "i_pad"
    /\ loc' = [loc EXCEPT !.tokenizer.pad_token =
                              PadTokenFor(loc.params.pad_token, loc.tokenizer)]
    /\ steps' = Append(steps, Step("pad_token", "ok"))
    /\ pc' = AfterStep("pad_token")
    /\ UNCHANGED <<call, cell, ns, inst, model_loads, tok_loads, gen, g, pipe_log,
                   built, last_err>>

\* tokenizer.padding_side = padding_side
InstSetPaddingSide ==
    /\ pc = "i_side"
    /\ loc' = [loc EXCEPT !.tokenizer.padding_side = loc.params.padding_side]
    /\ steps' = Append(steps, Step("padding_side", "ok"))
    /\ pc' = AfterStep("padding_side")
    /\ UNCHANGED <<call, cell, ns, inst, model_loads, tok_loads, gen, g, pipe_log,
                   built, last_err>>

\* return model, tokenizer; the cell binds the pair to model and tokenizer
InstReturn ==
    /\ pc = "i_return"
    /\ inst' = [inst EXCEPT !.status = "returned",
                            !.ret = [type |-> "tuple", model |-> loc.model,
                                     tokenizer |-> loc.tokenizer]]
    /\ ns' = [ns EXCEPT !.model = loc.model, !.tokenizer = loc.tokenizer]
    /\ steps' = Append(steps, Step("return", "ok"))
    /\ loc' = NoFrame
    /\ CellSucceeds
    /\ UNCHANGED <<call, model_loads, tok_loads, gen, g, pipe_log, built>>

(*************************** pipeline construction *************************)

\* streamer = TextStreamer(tokenizer); deci_generator = pipeline(...)
CellPipeline ==
    /\ CanRun("pipeline")
    /\ IF ns.tokenizer = Unbound \/ ns.model = Unbound
         THEN CellFails("NameError") /\ UNCHANGED <<ns, built>>
         ELSE \/ /\ ns' = [ns EXCEPT !.deci_generator = MakePipeline(ns.model, ns.tokenizer)]
                 /\ built' = ns'
                 /\ CellSucceeds
              \/ /\ \E kind \in PipelineErrors : CellFails(kind)
                 /\ UNCHANGED <<ns, built>>
    /\ UNCHANGED <<call, loc, inst, model_loads, tok_loads, steps, gen, g, pipe_log>>

(*************************** generate_text *********************************)

\* prompt = "..."; generate_text(deci_generator, prompt): the prompt is bound,
\* the arguments are evaluated, then the call enters the body
CellGenerate ==
    /\ CanRun("generate")
    /\ ns' = [ns EXCEPT !.prompt = PyStr(CellPrompt[cell])]
    /\ IF ns.deci_generator = Unbound
         THEN CellFails("NameError") /\ UNCHANGED <<gen, g, pipe_log>>
         ELSE /\ gen' = [pipeline |-> ns.deci_generator,
                         prompt |-> PyStr(CellPrompt[cell]), result |-> Unbound]
              /\ g' = [GenIdle EXCEPT !.status = "running", !.calls = g.calls + 1,
                                      !.active = g.active + 1]
              /\ pipe_log' = << >>
              /\ pc' = "g_call"
              /\ UNCHANGED <<cell, last_err>>
    /\ UNCHANGED <<call, loc, inst, model_loads, tok_loads, steps, built>>

\* the pipeline call raises: nothing catches it, so generate_text ends with
\* that error
GenRaises(kind) ==
    /\ g' = [g EXCEPT !.status = "raised", !.err = kind, !.active = g.active - 1]
    /\ gen' = NoFrame
    /\ CellFails(kind)

\* result = pipeline(prompt)[0]['generated_text']
GenCallPipeline ==
    /\ pc = "g_call"
    /\ \/ /\ \E r \in PipelineResults(gen.prompt) :
                /\ gen' = [gen EXCEPT !.result = r[1].generated_text]
                /\ pipe_log' = Append(pipe_log, [outcome |-> "ok", result |-> r])
          /\ pc' = "g_return"
          /\ UNCHANGED <<cell, g, last_err>>
       \/ \E kind \in GenerateErrors :
             /\ pipe_log' = Append(pipe_log, [outcome |-> kind, result |-> << >>])
             /\ GenRaises(kind)
    /\ UNCHANGED <<call, ns, loc, inst, model_loads, tok_loads, steps, built>>

\* the value generate_text hands back: the body ends without a return statement
GenerateTextValue(frame) == PyNone

\* generate_text resetting the tokenizer's pad token on its way out
GenReturnSettingPadToken ==
    /\ pc = "g_return"
    /\ g' = [g EXCEPT !.status = "returned", !.ret = PyNone, !.active = g.active - 1]
    /\ gen' = NoFrame
    /\ ns' = [ns EXCEPT !.tokenizer.pad_token = PyStr("[PAD]")]
    /\ CellSucceeds
    /\ UNCHANGED <<call, loc, inst, model_loads, tok_loads, steps, pipe_log, built>>

\* the function ends; its frame, with prompt and result, is dropped
GenReturn ==
    /\ pc = "g_return"
    /\ g' = [g EXCEPT !.status = "returned", !.ret = GenerateTextValue(gen),
                      !.active = g.active - 1]
    /\ gen' = NoFrame
    /\ ns' = ns
    /\ CellSucceeds
    /\ UNCHANGED <<call, loc, inst, model_loads, tok_loads, steps, pipe_log, built>>

(*************************** specifications ********************************)

Next ==
    \/ CellLoad
    \/ InstDefaultQuantization
    \/ InstModelLoad
    \/ InstTokLoad
    \/ InstSetPadToken
    \/ InstSetPaddingSide
    \/ InstReturn
    \/ CellPipeline
    \/ CellGenerate
    \/ GenCallPipeline
    \/ GenReturn

\* the loader, pipeline and generator for every call of the loader
Spec == Init /\ [][Next]_vars

\* the notebook as written
NotebookSpec == NotebookInit /\ [][Next]_vars

TypeOK ==
    /\ cell \in 1..(Len(Cells) + 1)
    /\ pc \in {"cell", "halted", "i_quant", "i_model", "i_tok", "i_pad", "i_side",
               "i_return", "g_call", "g_return"}

(*************************** properties ***********************************)

\* the caller gave the loader a value for parameter p
Given(p) == p \in DOMAIN call.kwargs

\* the caller gave a value other than None for parameter p
GivenNotNone(p) == Given(p) /\ call.kwargs[p] # PyNone

Ended == pc \in {"cell", "halted"}

\* C1: a generate_text call that succeeds returns the 'generated_text' of the
\* first element of the list the pipeline call returned.
GenerateTextReturnsFirstCompletion ==
    g.status = "returned" => g.ret = pipe_log[1].result[1].generated_text

\* C2: the quantization configuration forwarded to the model load is the
\* 4-bit default when none (or None) was given, and the given one otherwise.
QuantizationDefaultIsFourBit ==
    model_loads # << >> =>
        IF GivenNotNone("quantization_config")
          THEN model_loads[1].quantization_config = call.kwargs.quantization_config
          ELSE IsFourBit(model_loads[1].quantization_config)

\* C3: on every successful return of the loader the tokenizer's pad_token is
\* its eos_token when pad_token was omitted or None, and the supplied value
\* otherwise, the empty string included.
PadTokenIsEosOrSupplied ==
    inst.status = "returned" =>
        /\ inst.ret.tokenizer.pad_token =
              IF GivenNotNone("pad_token") THEN call.kwargs.pad_token
                                           ELSE inst.ret.tokenizer.eos_token
        /\ ns.tokenizer.pad_token = inst.ret.tokenizer.pad_token

\* C3 witness: the loader has returned after being given the empty string
EmptyPadTokenReturned ==
    /\ inst.status = "returned"
    /\ Given("pad_token")
    /\ call.kwargs.pad_token = PyStr("")
    /\ ns.tokenizer.pad_token = PyStr("")

\* C4: the model is loaded with use_cache = False when use_cache was omitted,
\* and with the supplied value otherwise.
UseCacheDefaultIsFalse ==
    model_loads # << >> =>
        model_loads[1].use_cache =
            IF Given("use_cache") THEN call.kwargs.use_cache
                                  ELSE DocumentedDefaults.use_cache

\* C5: the model load and the tokenizer load both receive trust_remote_code =
\* True when it was omitted, and the supplied value otherwise.
TrustRemoteCodeDefaultIsTrue ==
    LET want == IF Given("trust_remote_code") THEN call.kwargs.trust_remote_code
                                              ELSE DocumentedDefaults.trust_remote_code
    IN  /\ model_loads # << >> => model_loads[1].trust_remote_code = want
        /\ tok_loads # << >> => tok_loads[1].trust_remote_code = want

\* C6: when a library call fails, the operation ends with that same error: the
\* loader returns no pair and binds nothing, generate_text returns nothing,
\* the failed call is the last step and no library call is made twice.
ErrorsPropagateUncaught ==
    /\ \A i \in 1..Len(steps) :
          steps[i].outcome # "ok" =>
              /\ inst.status = "raised"
              /\ inst.err = steps[i].outcome
              /\ inst.ret = PyNone
              /\ ns.model = Unbound /\ ns.tokenizer = Unbound
              /\ i = Len(steps)
              /\ Len(model_loads) <= 1 /\ Len(tok_loads) <= 1
    /\ \A i \in 1..Len(pipe_log) :
          pipe_log[i].outcome # "ok" =>
              /\ g.status = "raised"
              /\ g.err = pipe_log[i].outcome
              /\ g.ret = PyNone
              /\ Len(pipe_log) = 1

\* C6 witness: the load of an unknown model identifier has failed
UnknownModelFailed ==
    /\ call.model_name \notin KnownModels
    /\ steps # << >>
    /\ steps[Len(steps)] = Step("model_load", "NotFound")
    /\ inst.status = "raised"

\* C8: once the pipeline is built, the model handle, the tokenizer and the
\* pipeline stay as they were built, through every generate_text call and
\* after it, and no frame of generate_text outlives its call.
GenerateTextIsStateless ==
    /\ built # Unbound =>
          /\ ns.model = built.model
          /\ ns.tokenizer = built.tokenizer
          /\ ns.deci_generator = built.deci_generator
    /\ Ended => gen = NoFrame

\* C8 witness: a generation call has failed after earlier calls were made, with
\* the pipeline built on a tokenizer that was given its own pad token
FailedAfterEarlierCalls ==
    /\ g.calls >= 3
    /\ g.status = "raised"
    /\ Ended
    /\ built # Unbound
    /\ ns.tokenizer.pad_token = PyStr("<pad>")

\* C9: the loader is invoked exactly once; a generate_text call is made only
\* after the load returned and the pipeline was built, never after a failed
\* load, and never while another call is running.
LoadOnceThenGenerate ==
    /\ inst.calls = IF cell = 1 /\ pc = "cell" THEN 0 ELSE 1
    /\ Len(model_loads) <= 1
    /\ g.calls > 0 => /\ inst.status = "returned"
                      /\ ns.deci_generator # Unbound
                      /\ built # Unbound
    /\ inst.status = "raised" => g.calls = 0 /\ gen = NoFrame
    /\ g.active <= 1
    /\ g.active = 1 <=> pc \in {"g_call", "g_return"}
    /\ pc \in {"g_call", "g_return"} => inst.status = "returned" /\ loc = NoFrame

\* C9 witness: all five generation cells have made their call
AllFiveGenerated == g.calls = 5 /\ pc = "cell" /\ cell = Len(Cells) + 1

LoaderOrder ==
    <<"quantization_config", "model_load", "tokenizer_load", "pad_token",
      "padding_side", "return">>

StepDone(name, i) == \E j \in 1..(i - 1) : steps[j] = Step(name, "ok")

\* C10: the loader's steps run in the order model load, tokenizer load,
\* pad_token, padding_side, return; the tokenizer load is attempted only after
\* the model load succeeded, the tokenizer is written only after both loads
\* succeeded, and on return padding_side is the supplied value, 'left' when
\* omitted.
LoaderStepsInOrder ==
    /\ Len(steps) <= Len(LoaderOrder)
    /\ \A i \in 1..Len(steps) :
          /\ steps[i].step = LoaderOrder[i]
          /\ steps[i].step = "tokenizer_load" => StepDone("model_load", i)
          /\ steps[i].step \in {"pad_token", "padding_side", "return"} =>
                StepDone("model_load", i) /\ StepDone("tokenizer_load", i)
    /\ tok_loads # << >> => Len(model_loads) = 1
    /\ inst.status = "returned" =>
          inst.ret.tokenizer.padding_side =
              IF Given("padding_side") THEN call.kwargs.padding_side
                                       ELSE PyStr("left")

\* C10 witness: the loader has returned with a supplied padding side
ReturnedWithPaddingSide ==
    /\ inst.status = "returned"
    /\ Given("padding_side")
    /\ Len(steps) = Len(LoaderOrder)
    /\ ns.tokenizer.padding_side = PyStr("right")

====
